---- MODULE Spec2Model ----
(***************************************************************************)
(* Model of the UDRG inventory dashboard (src/src/App.tsx): the React      *)
(* state of the App component, the analyzedData memo (the aggregation      *)
(* engine) and handleRunForecast with its deferred timer callback (the     *)
(* restock forecast engine).                                               *)
(*                                                                         *)
(* Money is counted in whole dollars and quantities in whole units.  A     *)
(* quotient the code leaves as a fraction (productCost of a group,         *)
(* avgMonthlyDemand, historicalAverage) is kept as an exact pair           *)
(* [num, den] with den > 0.                                                *)
(***************************************************************************)
EXTENDS Integers, Sequences, FiniteSets, TLC

VARIABLES
    products,       \* useState<Product[]>            App.tsx:18
    transactions,   \* useState<Transaction[]>        App.tsx:19
    inventory,      \* useState<InventoryState[]>     App.tsx:20
    filters,        \* useState<FilterState>          App.tsx:28
    customGroups,   \* useState<CustomGroup[]>        App.tsx:46
    forecastData,   \* useState<AnalysisRow[]>        App.tsx:55
    isForecasting,  \* useState(false)                App.tsx:56
    view,           \* 'dashboard' | 'calendar'
    timers,         \* pending setTimeout callbacks of handleRunForecast,
                    \* each with the values its closure captured
    dashboardPage,  \* useState(1)                    App.tsx:104
    selectedIds,    \* OutlierReview: useState<Set>   OutlierReview.tsx:14
    filterType,     \* OutlierReview: useState('All') OutlierReview.tsx:15
    cachedTransactions, \* localStorage udrg_transactions_cache, App.tsx:127
    serverTransactions  \* the rows of the Supabase table 'transactions'

vars == <<products, transactions, inventory, filters, customGroups,
          forecastData, isForecasting, view, timers, dashboardPage,
          selectedIds, filterType, cachedTransactions, serverTransactions>>

-----------------------------------------------------------------------------
(* Bounds of the model *)

\* at most this many transactions in the loaded data set
MaxTx == 2
\* at most this many forecast callbacks waiting for their timer
MaxPending == 2

-----------------------------------------------------------------------------
(* Generic helpers *)

Max(a, b) == IF a >= b THEN a ELSE b

\* Math.min of two numbers
Min(a, b) == IF a <= b THEN a ELSE b

\* Math.ceil(a / b) for an integer a and b > 0
CeilDiv(a, b) == -((-a) \div b)

\* Array.prototype.reduce with a numeric accumulator starting at 0
SumSeq(s, F(_)) ==
    LET acc[i \in 0..Len(s)] == IF i = 0 THEN 0 ELSE acc[i - 1] + F(s[i])
    IN  acc[Len(s)]

\* Array.prototype.map
MapSeq(s, F(_)) == [i \in 1..Len(s) |-> F(s[i])]

\* Array.prototype.flatMap
FlatMap(s, F(_)) ==
    LET acc[i \in 0..Len(s)] == IF i = 0 THEN <<>> ELSE acc[i - 1] \o F(s[i])
    IN  acc[Len(s)]

\* the elements of an array, as a set
Elems(s) == {s[i] : i \in 1..Len(s)}

\* Array.from(new Set(s)): the distinct elements in order of first insertion
RECURSIVE Distinct(_)
Distinct(s) ==
    IF s = <<>> THEN <<>>
    ELSE LET init == Distinct(SubSeq(s, 1, Len(s) - 1))
             last == s[Len(s)]
         IN  IF last \in Elems(init) THEN init ELSE Append(init, last)

\* Array.prototype.find: the first element satisfying P, as a 0/1-element array
FindFirst(s, P(_)) ==
    LET hits == SelectSeq(s, P) IN IF hits = <<>> THEN <<>> ELSE <<Head(hits)>>

-----------------------------------------------------------------------------
(* Text.  A string value of the program is a TLA+ string where it is only   *)
(* compared for equality (sku, property, category, status) and a sequence   *)
(* of characters where the code looks inside it (toLowerCase, includes,     *)
(* join, localeCompare).                                                    *)

LowerCaseLetters == <<"a","b","c","d","e","f","g","h","i","j","k","l","m",
                      "n","o","p","q","r","s","t","u","v","w","x","y","z">>
UpperCaseLetters == <<"A","B","C","D","E","F","G","H","I","J","K","L","M",
                      "N","O","P","Q","R","S","T","U","V","W","X","Y","Z">>

\* the characters of the string constants the model uses
Chars(s) ==
    CASE s = ""      -> <<>>
      [] s = "P1"    -> <<"P","1">>
      [] s = "P2"    -> <<"P","2">>
      [] s = "P3"    -> <<"P","3">>
      [] s = "PX"    -> <<"P","X">>
      [] s = "G1"    -> <<"G","1">>
      [] s = "G2"    -> <<"G","2">>
      [] s = "Mug"   -> <<"M","u","g">>
      [] s = "Cap"   -> <<"C","a","p">>
      [] s = "Hat"   -> <<"H","a","t">>
      [] s = "Home"  -> <<"H","o","m","e">>
      [] s = "Wear"  -> <<"W","e","a","r">>
      [] s = "Gifts" -> <<"G","i","f","t","s">>
      [] s = "Acme"  -> <<"A","c","m","e">>
      [] s = "Bolt"  -> <<"B","o","l","t">>
      [] s = "Set"   -> <<"S","e","t">>
      [] s = "Category: "   -> <<"C","a","t","e","g","o","r","y",":"," ">>
      [] s = "Custom Group" -> <<"C","u","s","t","o","m"," ","G","r","o","u","p">>
      [] s = ", "    -> <<","," ">>
      [] s = "All"   -> <<"A","l","l">>

\* one character of String.prototype.toLowerCase
ToLowerChar(c) ==
    IF \E i \in 1..26 : UpperCaseLetters[i] = c
    THEN LowerCaseLetters[CHOOSE i \in 1..26 : UpperCaseLetters[i] = c]
    ELSE c

\* String.prototype.toLowerCase
ToLowerCase(cs) == [i \in 1..Len(cs) |-> ToLowerChar(cs[i])]

\* String.prototype.includes
Includes(hay, needle) ==
    \E i \in 0..(Len(hay) - Len(needle)) :
        \A j \in 1..Len(needle) : hay[i + j] = needle[j]

\* Array.prototype.join(', ') of an array of strings
RECURSIVE JoinComma(_)
JoinComma(list) ==
    IF list = <<>> THEN <<>>
    ELSE IF Len(list) = 1 THEN Chars(list[1])
    ELSE Chars(list[1]) \o Chars(", ") \o JoinComma(Tail(list))

\* collation rank of a character: blank and punctuation, digits, letters
CollationOrder == <<" ", ",", ":", "0","1","2","3","4","5","6","7","8","9">>
                  \o LowerCaseLetters
Rank(c) == CHOOSE i \in 1..Len(CollationOrder) : CollationOrder[i] = ToLowerChar(c)

\* lexicographic comparison of two sequences of integers: -1, 0 or 1
RECURSIVE LexCompare(_, _)
LexCompare(a, b) ==
    IF a = <<>> /\ b = <<>> THEN 0
    ELSE IF a = <<>> THEN -1
    ELSE IF b = <<>> THEN 1
    ELSE IF Head(a) < Head(b) THEN -1
    ELSE IF Head(a) > Head(b) THEN 1
    ELSE LexCompare(Tail(a), Tail(b))

\* String.prototype.localeCompare: letters first compared regardless of
\* case, then lower case before upper case
LocaleCompare(a, b) ==
    LET primary == LexCompare(MapSeq(a, Rank), MapSeq(b, Rank))
        CaseBit(c) == IF ToLowerChar(c) = c THEN 0 ELSE 1
    IN  IF primary # 0 THEN primary
        ELSE LexCompare(MapSeq(a, CaseBit), MapSeq(b, CaseBit))

-----------------------------------------------------------------------------
(* Dates.  A date string "YYYY-MM-DD" or "YYYY-MM-DDTHH:MM:SS" is the        *)
(* record [y, m, d, t] with t the text from the 'T' on ("" when absent).     *)

Day(y, m, d) == [y |-> y, m |-> m, d |-> d, t |-> ""]
DayTime(y, m, d, t) == [y |-> y, m |-> m, d |-> d, t |-> t]

\* date.split('T')[0]: the calendar-day part of a date string
SplitT0(date) == [y |-> date.y, m |-> date.m, d |-> date.d, t |-> ""]

\* a <= b on two zero-padded "YYYY-MM-DD" strings (string comparison)
DayStrLeq(a, b) == LexCompare(<<a.y, a.m, a.d>>, <<b.y, b.m, b.d>>) <= 0

IsLeap(y) == (y % 4 = 0 /\ y % 100 # 0) \/ y % 400 = 0
DaysBeforeMonth == <<0, 31, 59, 90, 120, 151, 181, 212, 243, 273, 304, 334>>

\* new Date("YYYY-MM-DD").getTime(), counted in days
DayNumber(date) ==
    365 * date.y + ((date.y - 1) \div 4) - ((date.y - 1) \div 100)
    + ((date.y - 1) \div 400) + DaysBeforeMonth[date.m]
    + (IF date.m > 2 /\ IsLeap(date.y) THEN 1 ELSE 0) + date.d

\* new Date(t.date).getMonth(): 0-based month
GetMonth(date) == date.m - 1
\* new Date(t.date).getFullYear()
GetFullYear(date) == date.y

\* new Date() in the forecast callback: the month the forecast is run in
Today == [year |-> 2026, month |-> 10]

-----------------------------------------------------------------------------
(* Fractions *)

Frac(n, d) == [num |-> n, den |-> d]
\* sign of a - b for two fractions with positive denominators
FracCompare(a, b) ==
    LET l == a.num * b.den
        r == b.num * a.den
    IN  IF l < r THEN -1 ELSE IF l > r THEN 1 ELSE 0

-----------------------------------------------------------------------------
(* The aggregation engine: the analyzedData memo, App.tsx:393-507 *)

\* String.prototype.trim on a sequence of characters
RECURSIVE Trim(_)
Trim(cs) ==
    IF cs = <<>> THEN cs
    ELSE IF Head(cs) = " " THEN Trim(Tail(cs))
    ELSE IF cs[Len(cs)] = " " THEN Trim(SubSeq(cs, 1, Len(cs) - 1))
    ELSE cs

\* matchDate with the first comparison reversed
MatchDateReversed(f, t) ==
    LET txDate == SplitT0(t.date)
    IN  DayStrLeq(txDate, f.dateStart) /\ DayStrLeq(txDate, f.dateEnd)

\* matchDate: txDate >= filters.dateStart && txDate <= filters.dateEnd
MatchDate(f, t) ==
    LET txDate == SplitT0(t.date)
    IN  DayStrLeq(f.dateStart, txDate) /\ DayStrLeq(txDate, f.dateEnd)

\* matchProp: no store selected, or some selected store equals the
\* transaction's property after trimming both
MatchProp(f, t) ==
    \/ Len(f.selectedProperty) = 0
    \/ \E i \in 1..Len(f.selectedProperty) :
          Trim(f.selectedProperty[i]) = Trim(t.property)

\* the pre-filter of analyzedData
FilteredTx(txs, f) ==
    SelectSeq(txs, LAMBDA t : MatchDate(f, t) /\ MatchProp(f, t))

\* txBySku.get(sku) || []
TxBySku(filteredTx, sku) == SelectSeq(filteredTx, LAMBDA t : t.sku = sku)

\* invIndex.get(sku): property -> quantity, a later record of the same
\* (sku, property) replacing an earlier one; records without a property are
\* not entered
InvIndex(inv, sku) ==
    LET keyed == SelectSeq(inv, LAMBDA i : i.sku = sku /\ i.property # <<>>)
        LastOf(prop) ==
            keyed[CHOOSE k \in 1..Len(keyed) :
                    /\ keyed[k].property = prop
                    /\ \A j \in (k + 1)..Len(keyed) : keyed[j].property # prop]
    IN  [prop \in {keyed[k].property : k \in 1..Len(keyed)} |-> LastOf(prop).qtyOnHand]

\* the quantity on hand one SKU adds to its row
SkuOnHand(inv, f, sku) ==
    LET skuInv == InvIndex(inv, sku)
        keys   == DOMAIN skuInv
        Get(prop) == IF prop \in keys THEN skuInv[prop] ELSE 0
        RECURSIVE SumOver(_)
        SumOver(S) == IF S = {} THEN 0
                      ELSE LET k == CHOOSE x \in S : TRUE
                           IN  skuInv[k] + SumOver(S \ {k})
    IN  IF Len(f.selectedProperty) = 0
        THEN SumOver(keys)
        ELSE SumSeq(f.selectedProperty, Get)

\* products.find(p => p.sku === sku), as a 0/1-element array
FindProduct(prods, sku) == FindFirst(prods, LAMBDA p : p.sku = sku)

\* the unit price and unit cost calculateMetrics applies to a transaction
\* of product p
UnitPrice(t, p) == p.price
UnitCost(t, p) == p.cost

\* t.discount || 0
TxDiscount(t) == t.discount

\* grossRevenue without the discounts added back
GrossRevenueNet(revenue, discounts) == revenue

\* grossRevenue: revenue + discounts (App.tsx:462)
GrossRevenue(revenue, discounts) == revenue + discounts

\* the divisor of the group's average cost
CostDivisor(skus, isGroup) == IF isGroup /\ Len(skus) > 0 THEN Len(skus) ELSE 1

\* monthsDiff without the floor at 1
MonthsDiffUnfloored(f) ==
    Frac(DayNumber(f.dateEnd) - DayNumber(f.dateStart), 30)

\* monthsDiff = max(1, days / 30) as a fraction
MonthsDiff(f) ==
    LET days == DayNumber(f.dateEnd) - DayNumber(f.dateStart)
    IN  IF days > 30 THEN Frac(days, 30) ELSE Frac(1, 1)

CalculateMetrics(prods, inv, f, filteredTx, skus, id, name, category, isGroup) ==
    LET known == SelectSeq(skus, LAMBDA s : FindProduct(prods, s) # <<>>)
        Prod(s) == FindProduct(prods, s)[1]
        Txs(s)  == TxBySku(filteredTx, s)
        costSum   == SumSeq(known, LAMBDA s : Prod(s).cost)
        qtyOnHand == SumSeq(known, LAMBDA s : SkuOnHand(inv, f, s))
        qtySold   == SumSeq(known, LAMBDA s :
                        SumSeq(Txs(s), LAMBDA t : t.qtySold))
        discounts == SumSeq(known, LAMBDA s :
                        SumSeq(Txs(s), LAMBDA t : TxDiscount(t)))
        revenue   == SumSeq(known, LAMBDA s :
                        SumSeq(Txs(s), LAMBDA t :
                            t.qtySold * UnitPrice(t, Prod(s)) - TxDiscount(t)))
        profit    == SumSeq(known, LAMBDA s :
                        SumSeq(Txs(s), LAMBDA t :
                            (t.qtySold * UnitPrice(t, Prod(s)) - TxDiscount(t))
                            - t.qtySold * UnitCost(t, Prod(s))))
        md        == MonthsDiff(f)
        \* qtySold / monthsDiff
        avg       == Frac(qtySold * md.den, md.num)
    IN  [ id |-> id, name |-> name, category |-> category, isGroup |-> isGroup,
          skus |-> skus,
          productCost |-> Frac(costSum, CostDivisor(skus, isGroup)),
          department |-> JoinComma(Distinct(MapSeq(known, LAMBDA s : Prod(s).department))),
          vendor |-> JoinComma(Distinct(MapSeq(known, LAMBDA s : Prod(s).vendor))),
          qtySold |-> qtySold,
          grossRevenue |-> GrossRevenue(revenue, discounts),
          revenue |-> revenue,
          profit |-> profit,
          discounts |-> discounts,
          qtyOnHand |-> qtyOnHand,
          avgMonthlyDemand |-> avg,
          monthsOfSupply |-> IF avg.num > 0 THEN Frac(qtyOnHand * avg.den, avg.num)
                                            ELSE Frac(999, 1),
          suggestedReorder |-> Frac(Max(0, 2 * avg.num - qtyOnHand * avg.den), avg.den),
          calendarSchedule |-> <<>>,
          hasHistory |-> FALSE ]

\* the SKUs claimed by some custom group
GroupedSkus(groups) == Elems(FlatMap(groups, LAMBDA g : g.skus))

\* row construction for the three grouping modes
BuildRows(prods, txs, inv, groups, f) ==
    LET ftx == FilteredTx(txs, f)
        SkuRow(p) == CalculateMetrics(prods, inv, f, ftx, <<p.sku>>, p.sku,
                                      Chars(p.name), p.category, FALSE)
        CatRow(c) == CalculateMetrics(prods, inv, f, ftx,
                        MapSeq(SelectSeq(prods, LAMBDA p : p.category = c),
                               LAMBDA p : p.sku),
                        c, Chars("Category: ") \o Chars(c), c, TRUE)
        GroupRow(g) == CalculateMetrics(prods, inv, f, ftx, g.skus, g.id,
                                        Chars(g.name), "Custom Group", TRUE)
    IN  CASE f.groupBy = "sku" -> MapSeq(prods, SkuRow)
          [] f.groupBy = "category" ->
                MapSeq(Distinct(MapSeq(prods, LAMBDA p : p.category)), CatRow)
          [] f.groupBy = "custom" ->
                MapSeq(groups, GroupRow)
                \o MapSeq(SelectSeq(prods, LAMBDA p : p.sku \notin GroupedSkus(groups)),
                          SkuRow)
          [] OTHER -> <<>>

\* the row filter: search text, inclusion sets and the hide-zero toggles
RowMatches(f, r) ==
    LET searchLower == ToLowerCase(f.search)
        matchSearch ==
            \/ searchLower = <<>>
            \/ Includes(ToLowerCase(r.name), searchLower)
            \/ \E i \in 1..Len(r.skus) :
                  Includes(ToLowerCase(Chars(r.skus[i])), searchLower)
            \/ Includes(ToLowerCase(r.vendor), searchLower)
            \/ Includes(ToLowerCase(Chars(r.category)), searchLower)
            \/ Includes(ToLowerCase(r.department), searchLower)
        matchCat == Len(f.categories) = 0 \/ r.category \in Elems(f.categories)
        matchDept == \/ Len(f.departments) = 0
                     \/ \E i \in 1..Len(f.departments) :
                           Includes(r.department, Chars(f.departments[i]))
        matchVendor == \/ Len(f.vendors) = 0
                       \/ \E i \in 1..Len(f.vendors) :
                             Includes(r.vendor, Chars(f.vendors[i]))
        matchZeroSales == ~f.hideZeroSales \/ r.qtySold > 0
        matchZeroOnHand == ~f.hideZeroOnHand \/ r.qtyOnHand > 0
    IN  matchSearch /\ matchCat /\ matchDept /\ matchVendor
        /\ matchZeroSales /\ matchZeroOnHand

\* the row fields that hold a fraction
FracFields == {"productCost", "avgMonthlyDemand", "monthsOfSupply", "suggestedReorder"}

\* the sort comparator: sign of compare(a, b)
RowCompare(f, a, b) ==
    LET dir == IF f.sortDir = "asc" THEN 1 ELSE -1
        field == f.sortBy
    IN  IF field = "name" THEN LocaleCompare(a.name, b.name) * dir
        ELSE IF field \in FracFields THEN FracCompare(a[field], b[field]) * dir
        ELSE (IF a[field] < b[field] THEN -1
              ELSE IF a[field] > b[field] THEN 1 ELSE 0) * dir

\* Array.prototype.sort (stable) with the comparator above
RECURSIVE SortRows(_, _)
SortRows(f, rows) ==
    IF rows = <<>> THEN <<>>
    ELSE LET sorted == SortRows(f, SubSeq(rows, 1, Len(rows) - 1))
             r == rows[Len(rows)]
             \* r goes after every element that does not compare greater
             keep == Cardinality({i \in 1..Len(sorted) :
                        \A j \in 1..i : RowCompare(f, sorted[j], r) <= 0})
         IN  SubSeq(sorted, 1, keep) \o <<r>> \o SubSeq(sorted, keep + 1, Len(sorted))

\* analyze(products, transactions, inventory, customGroups, filters)
Analyze(prods, txs, inv, groups, f) ==
    SortRows(f, SelectSeq(BuildRows(prods, txs, inv, groups, f),
                          LAMBDA r : RowMatches(f, r)))

\* the memo's current value
analyzedData == Analyze(products, transactions, inventory, customGroups, filters)

-----------------------------------------------------------------------------
(* The restock forecast engine: handleRunForecast, App.tsx:561-601 *)

\* filters.selectedProperty === x for a string x: selectedProperty is an
\* array (App.tsx:37, ui.tsx:66-78) and an array is never strictly equal
\* to a string
ArrayStrictEqualsString(arr, str) == FALSE

\* pTx: the transactions the lookback reads
PTx(txs, f) ==
    SelectSeq(txs, LAMBDA t :
        \/ ArrayStrictEqualsString(f.selectedProperty, Chars("All"))
        \/ ArrayStrictEqualsString(f.selectedProperty, t.property))

\* new Date(today.getFullYear(), today.getMonth() + i, 1)
TargetMonth(today, i) == (today.month + i) % 12
TargetYear(today, i) == today.year + ((today.month + i) \div 12)

\* yTx: the transactions of the row's SKUs in month tMonth of year tYear - y
YearTx(pTx, row, tMonth, lookbackYear) ==
    SelectSeq(pTx, LAMBDA t : /\ t.sku \in Elems(row.skus)
                              /\ GetMonth(t.date) = tMonth
                              /\ GetFullYear(t.date) = lookbackYear)

\* whether a lookback year enters the average
YearFound(yTx) == SumSeq(yTx, LAMBDA t : t.qtySold) > 0 \/ Len(yTx) > 0

\* the lookback loop over y = 1..3: histSum and years
Lookback(pTx, row, tMonth, tYear) ==
    LET YTx(y) == YearTx(pTx, row, tMonth, tYear - y)
        found == {y \in 1..3 : YearFound(YTx(y))}
        Sum(y) == IF y \in found THEN SumSeq(YTx(y), LAMBDA t : t.qtySold) ELSE 0
    IN  [histSum |-> Sum(1) + Sum(2) + Sum(3), years |-> Cardinality(found)]

\* avg = years > 0 ? histSum / years : 0
HistoricalAverage(lb) == IF lb.years > 0 THEN Frac(lb.histSum, lb.years) ELSE Frac(0, 1)

\* forecast = avg > 0 ? ceil(avg * 1.05) : ceil(row.qtySold / 3)
ForecastedDemand(avg, row) ==
    IF avg.num > 0 THEN CeilDiv(avg.num * 105, avg.den * 100)
    ELSE CeilDiv(row.qtySold, 3)

\* buy without the target stock in the need
RestockQtyNoTarget(forecast, target, open) == Max(0, forecast - open)

\* buy without the floor at 0
RestockQtyUnclamped(forecast, target, open) == (forecast + target) - open

\* buy = max(0, (forecast + target) - open)
RestockQty(forecast, target, open) == Max(0, (forecast + target) - open)

\* currentStock with the month's demand taken out twice
ClosingStockDoubleDemand(open, buy, forecast) == Max(0, open + buy - 2 * forecast)

\* currentStock without the month's demand taken out
ClosingStockNoDemand(open, buy, forecast) == Max(0, open + buy)

\* currentStock = max(0, open + buy - forecast)
ClosingStock(open, buy, forecast) == Max(0, open + buy - forecast)

\* one pass of the loop body for month i, starting from stock currentStock
ForecastCell(pTx, row, today, i, currentStock) ==
    LET tMonth == TargetMonth(today, i)
        tYear  == TargetYear(today, i)
        lb     == Lookback(pTx, row, tMonth, tYear)
        avg    == HistoricalAverage(lb)
        forecast == ForecastedDemand(avg, row)
        target == forecast
        open   == currentStock
        buy    == RestockQty(forecast, target, open)
    IN  [ monthIndex |-> i - 1,
          monthLabel |-> [month |-> tMonth, year |-> tYear % 100],
          forecastedDemand |-> forecast,
          openingStock |-> open,
          targetStock |-> target,
          restockQty |-> buy,
          restockCost |-> Frac(buy * row.productCost.num, row.productCost.den),
          closingStock |-> ClosingStock(open, buy, forecast),
          historicalAverage |-> avg ]

\* the 12-month schedule of one row
Schedule(pTx, row, today) ==
    LET sched[i \in 0..12] ==
            IF i = 0 THEN <<>>
            ELSE LET done == sched[i - 1]
                     currentStock == IF i = 1 THEN row.qtyOnHand
                                     ELSE done[i - 1].closingStock
                 IN  Append(done, ForecastCell(pTx, row, today, i, currentStock))
    IN  sched[12]

\* hasHistory after the loop: some month found some lookback year
HasHistory(pTx, row, today) ==
    \E i \in 1..12 :
        Lookback(pTx, row, TargetMonth(today, i), TargetYear(today, i)).years > 0

\* newRows: the rows the timer callback stores
ForecastRows(rows, txs, f, today) ==
    LET pTx == PTx(txs, f)
    IN  MapSeq(rows, LAMBDA row :
            [row EXCEPT !.calendarSchedule = Schedule(pTx, row, today),
                        !.hasHistory = HasHistory(pTx, row, today)])

-----------------------------------------------------------------------------
(* The outlier review: OutlierReview.tsx:13-67 and outlierCount,             *)
(* App.tsx:93-101                                                            *)

\* t.unit_cost_sold || p?.cost || 0 and t.unit_price_sold || p?.price || 0
OutlierCost(prods, t) ==
    IF t.unit_cost_sold # 0 THEN t.unit_cost_sold
    ELSE IF FindProduct(prods, t.sku) # <<>> THEN FindProduct(prods, t.sku)[1].cost
    ELSE 0
OutlierPrice(prods, t) ==
    IF t.unit_price_sold # 0 THEN t.unit_price_sold
    ELSE IF FindProduct(prods, t.sku) # <<>> THEN FindProduct(prods, t.sku)[1].price
    ELSE 0

\* revenue = (t.qtySold * price) - (t.discount || 0)
OutlierRevenue(prods, t) == (t.qtySold * OutlierPrice(prods, t)) - t.discount

\* the four rules
IsHighQty(t) == t.qtySold > 500
IsNegativeMargin(prods, t) ==
    /\ OutlierRevenue(prods, t) < t.qtySold * OutlierCost(prods, t)
    /\ OutlierRevenue(prods, t) > 0
IsZeroCost(prods, t) == OutlierCost(prods, t) = 0 /\ OutlierRevenue(prods, t) > 10
IsAbnormalRevenue(prods, t) == OutlierRevenue(prods, t) > 5000

\* the issue filters of the panel
FilterTypes == {"All", "HighQty", "NegativeMargin", "ZeroCost"}

\* the filter callback of the outliers memo (OutlierReview.tsx:19-37)
IsListed(prods, ft, t) ==
    IF t.review_status = "verified" \/ t.review_status = "ignored" THEN FALSE
    ELSE IF ft = "HighQty" THEN IsHighQty(t)
    ELSE IF ft = "NegativeMargin" THEN IsNegativeMargin(prods, t)
    ELSE IF ft = "ZeroCost" THEN IsZeroCost(prods, t)
    ELSE \/ IsHighQty(t) \/ IsNegativeMargin(prods, t)
         \/ IsZeroCost(prods, t) \/ IsAbnormalRevenue(prods, t)

\* sort((a, b) => new Date(b.date) - new Date(a.date)): latest first, stable
RECURSIVE SortByDateDesc(_)
SortByDateDesc(txs) ==
    IF txs = <<>> THEN <<>>
    ELSE LET sorted == SortByDateDesc(SubSeq(txs, 1, Len(txs) - 1))
             t == txs[Len(txs)]
             keep == Cardinality({i \in 1..Len(sorted) :
                        \A j \in 1..i :
                            DayNumber(sorted[j].date) >= DayNumber(t.date)})
         IN  SubSeq(sorted, 1, keep) \o <<t>> \o SubSeq(sorted, keep + 1, Len(sorted))

\* the outliers memo
Outliers(txs, prods, ft) ==
    SortByDateDesc(SelectSeq(txs, LAMBDA t : IsListed(prods, ft, t)))

\* outlierCount that also counts the reviewed transactions
OutlierCountAny(txs, prods) ==
    Len(SelectSeq(txs, LAMBDA t :
            \/ t.qtySold > 500
            \/ (OutlierRevenue(prods, t) < t.qtySold * OutlierCost(prods, t)
                  /\ OutlierRevenue(prods, t) > 0)
            \/ (OutlierCost(prods, t) = 0 /\ OutlierRevenue(prods, t) > 10)
            \/ OutlierRevenue(prods, t) > 5000))

\* outlierCount, the Data Health badge (App.tsx:93-101)
OutlierCount(txs, prods) ==
    Len(SelectSeq(txs, LAMBDA t :
            /\ ~(t.review_status = "verified" \/ t.review_status = "ignored")
            /\ \/ t.qtySold > 500
               \/ (OutlierRevenue(prods, t) < t.qtySold * OutlierCost(prods, t)
                     /\ OutlierRevenue(prods, t) > 0)
               \/ (OutlierCost(prods, t) = 0 /\ OutlierRevenue(prods, t) > 10)
               \/ OutlierRevenue(prods, t) > 5000))

-----------------------------------------------------------------------------
(* The data the model is run on *)

\* the catalogue: two products of one category and department, one of another
Catalogue ==
    << [sku |-> "P1", name |-> "Mug", department |-> "Gifts", category |-> "Home",
        vendor |-> "Acme", cost |-> 4, price |-> 10],
       [sku |-> "P2", name |-> "Cap", department |-> "Gifts", category |-> "Home",
        vendor |-> "Bolt", cost |-> 3, price |-> 7],
       [sku |-> "P3", name |-> "Hat", department |-> "Wear", category |-> "Wear",
        vendor |-> "Acme", cost |-> 0, price |-> 20] >>

North == <<"N">>
South == <<"S">>

\* inventory counts: two stores for P1 with a recount of the first, a
\* company-wide count (no property) for P2, a negative count for P3
InventoryCounts ==
    << [sku |-> "P1", qtyOnHand |-> 9, property |-> North, lastCounted |-> 2],
       [sku |-> "P1", qtyOnHand |-> 4, property |-> South, lastCounted |-> 1],
       [sku |-> "P1", qtyOnHand |-> 2, property |-> North, lastCounted |-> 1],
       [sku |-> "P2", qtyOnHand |-> 7, property |-> <<>>, lastCounted |-> 1],
       [sku |-> "P3", qtyOnHand |-> -3, property |-> South, lastCounted |-> 1] >>

\* a sale of 5 of P1 at the North store on 2025-03-05, no discount and no
\* point-in-time price or cost (0 stands for an absent override, as in
\* loadServerData's Number(x) || 0)
BaseTx ==
    [id |-> "", date |-> Day(2025, 3, 5), sku |-> "P1", qtySold |-> 5,
     discount |-> 0, property |-> North, unit_price_sold |-> 0,
     unit_cost_sold |-> 0, review_status |-> "pending"]

\* the transactions a data set is drawn from: the base sale and the sales
\* that differ from it in one respect
TxChoices ==
    << BaseTx,
       [BaseTx EXCEPT !.sku = "P2"],
       [BaseTx EXCEPT !.sku = "PX"],
       [BaseTx EXCEPT !.date = DayTime(2025, 3, 5, "T10:30:00")],
       [BaseTx EXCEPT !.date = Day(2025, 4, 20)],
       [BaseTx EXCEPT !.date = Day(2024, 3, 10)],
       [BaseTx EXCEPT !.qtySold = 3, !.discount = 6],
       [BaseTx EXCEPT !.property = South],
       [BaseTx EXCEPT !.unit_price_sold = 12],
       [BaseTx EXCEPT !.unit_cost_sold = 6] >>

\* the sales history the forecast is run on: sales of March 2025 and
\* March 2024 (both looked back to from March 2027), of another product,
\* at another store, and of quantity 0
HistoryChoices ==
    << BaseTx,
       [BaseTx EXCEPT !.sku = "P2"],
       [BaseTx EXCEPT !.date = Day(2024, 3, 10)],
       [BaseTx EXCEPT !.qtySold = 0],
       [BaseTx EXCEPT !.property = South] >>

\* the sales the review panel is opened on: a regular sale, one of a high
\* quantity, one sold below cost after its discount, one of a product
\* without cost, and one of an abnormal revenue only
ReviewChoices ==
    << BaseTx,
       [BaseTx EXCEPT !.qtySold = 501],
       [BaseTx EXCEPT !.discount = 40],
       [BaseTx EXCEPT !.sku = "P3", !.qtySold = 1],
       [BaseTx EXCEPT !.qtySold = 500, !.unit_price_sold = 12] >>

\* the lists of at most MaxTx transactions drawn from choices, the ids given
\* by position; a list and its permutations are drawn once
TxIds == <<"t1", "t2", "t3", "t4">>
TxLists(choices) ==
    UNION { { [k \in 1..n |-> [choices[pick[k]] EXCEPT !.id = TxIds[k]]] :
                pick \in { q \in [1..n -> 1..Len(choices)] :
                             \A k \in 1..(n - 1) : q[k] <= q[k + 1] } } :
            n \in 0..MaxTx }

\* grouping inputs: the mode and the custom groups it is used with; the
\* first two groups share P1, the second lists a SKU that is no product,
\* the third lists no SKU, and P2 and P3 are in no group
GroupLists ==
    { << [id |-> "G1", name |-> "Set", skus |-> <<"P1">>],
         [id |-> "G2", name |-> "Set", skus |-> <<"P1", "PX">>],
         [id |-> "G3", name |-> "Set", skus |-> <<>>] >> }
Groupings ==
    {<<"sku", <<>>>>, <<"category", <<>>>>} \cup {<<"custom", g>> : g \in GroupLists}

DateStartChoices == {Day(2025, 1, 1), Day(2025, 3, 5)}
DateEndChoices == {Day(2025, 3, 5), Day(2026, 11, 4)}
Properties == {North, South}

\* the texts typed into the Search box: none, part of a name in another
\* case, a vendor, a SKU, part of a department, a category, and a text that
\* is in no field
SearchTexts ==
    { <<>>, <<"m","U">>, <<"a","c","m","e">>, <<"p","1">>, <<"g","i","f">>,
      <<"h","o","m","e">>, <<"z">> }

\* the filters after the mount effect (App.tsx:28-43, 108-118)
InitialFilters ==
    [search |-> <<>>, searchFields |-> <<"name">>, categories |-> <<>>,
     departments |-> <<>>, vendors |-> <<>>,
     dateStart |-> Day(2025, 1, 1), dateEnd |-> Day(2026, 11, 4),
     groupBy |-> "sku", selectedProperty |-> <<>>,
     sortBy |-> "revenue", sortDir |-> "desc",
     hideZeroSales |-> FALSE, hideZeroOnHand |-> FALSE]

-----------------------------------------------------------------------------
(* The state machine *)

\* the state after construction and data load, for a transaction list and
\* a grouping drawn from the given sets
InitWith(txLists, groupings) ==
    /\ products = Catalogue
    /\ inventory = InventoryCounts
    /\ transactions \in txLists
    /\ \E g \in groupings :
          /\ filters = [InitialFilters EXCEPT !.groupBy = g[1]]
          /\ customGroups = g[2]
    /\ forecastData = <<>>
    /\ isForecasting = FALSE
    /\ view = "dashboard"
    /\ timers = <<>>
    /\ dashboardPage = 1
    /\ selectedIds = {}
    /\ filterType = "All"
    \* the mount effect's loadServerData fetched the table and cached it
    \* (App.tsx:298-313)
    /\ serverTransactions = transactions
    /\ cachedTransactions = transactions

\* the Start date input (App.tsx:719)
SetDateStart ==
    /\ \E d \in DateStartChoices :
          filters' = [filters EXCEPT !.dateStart = d]
    /\ UNCHANGED <<dashboardPage, selectedIds, filterType,
                   cachedTransactions, serverTransactions>>
    /\ UNCHANGED <<products, transactions, inventory, customGroups,
                   forecastData, isForecasting, view, timers>>

\* the End date input (App.tsx:721)
SetDateEnd ==
    /\ \E d \in DateEndChoices :
          filters' = [filters EXCEPT !.dateEnd = d]
    /\ UNCHANGED <<dashboardPage, selectedIds, filterType,
                   cachedTransactions, serverTransactions>>
    /\ UNCHANGED <<products, transactions, inventory, customGroups,
                   forecastData, isForecasting, view, timers>>

\* toggleFilter that also drops the stored forecast
ToggleFilterPropertyClearing(stores) ==
    /\ \E value \in stores :
          LET current == filters.selectedProperty
              newValues == IF value \in Elems(current)
                           THEN SelectSeq(current, LAMBDA item : item # value)
                           ELSE Append(current, value)
          IN  filters' = [filters EXCEPT !.selectedProperty = newValues]
    /\ forecastData' = <<>>
    /\ UNCHANGED <<dashboardPage, selectedIds, filterType,
                   cachedTransactions, serverTransactions>>
    /\ UNCHANGED <<products, transactions, inventory, customGroups,
                   isForecasting, view, timers>>

\* FilterPanel's toggleFilter('selectedProperty', value) (ui.tsx:66-74), the
\* value one of the listed stores
ToggleFilterProperty(stores) ==
    /\ \E value \in stores :
          LET current == filters.selectedProperty
              newValues == IF value \in Elems(current)
                           THEN SelectSeq(current, LAMBDA item : item # value)
                           ELSE Append(current, value)
          IN  filters' = [filters EXCEPT !.selectedProperty = newValues]
    /\ UNCHANGED <<dashboardPage, selectedIds, filterType,
                   cachedTransactions, serverTransactions>>
    /\ UNCHANGED <<products, transactions, inventory, customGroups,
                   forecastData, isForecasting, view, timers>>

\* the Search box (App.tsx:727)
SetSearch ==
    /\ \E text \in SearchTexts :
          /\ text # filters.search
          /\ filters' = [filters EXCEPT !.search = text]
    /\ UNCHANGED <<dashboardPage, selectedIds, filterType,
                   cachedTransactions, serverTransactions>>
    /\ UNCHANGED <<products, transactions, inventory, customGroups,
                   forecastData, isForecasting, view, timers>>

\* the Hide Zero Sales button (App.tsx:802)
ToggleHideZeroSales ==
    /\ filters' = [filters EXCEPT !.hideZeroSales = ~filters.hideZeroSales]
    /\ UNCHANGED <<dashboardPage, selectedIds, filterType,
                   cachedTransactions, serverTransactions>>
    /\ UNCHANGED <<products, transactions, inventory, customGroups,
                   forecastData, isForecasting, view, timers>>

\* handleUpdateTransaction(id, {review_status}) (App.tsx:73-79), as the
\* outlier review calls it
HandleUpdateTransaction(statuses) ==
    /\ \E k \in 1..Len(transactions), st \in statuses :
          /\ transactions[k].review_status # st
          /\ transactions' =
                [j \in 1..Len(transactions) |->
                    IF transactions[j].id = transactions[k].id
                    THEN [transactions[j] EXCEPT !.review_status = st]
                    ELSE transactions[j]]
          \* supabase.from('transactions').update(updates).eq('id', id)
          /\ serverTransactions' =
                [j \in 1..Len(serverTransactions) |->
                    IF serverTransactions[j].id = transactions[k].id
                    THEN [serverTransactions[j] EXCEPT !.review_status = st]
                    ELSE serverTransactions[j]]
    /\ UNCHANGED <<dashboardPage, selectedIds, filterType, cachedTransactions>>
    /\ UNCHANGED <<products, inventory, filters, customGroups,
                   forecastData, isForecasting, view, timers>>

\* handleRunForecast up to the setTimeout call (App.tsx:561-563): the
\* callback keeps the transactions, filters and analyzedData of this render
HandleRunForecast ==
    /\ view = "dashboard"
    /\ Len(timers) < MaxPending
    /\ isForecasting' = TRUE
    /\ timers' = Append(timers, [transactions |-> transactions,
                                 filters |-> filters,
                                 analyzedData |-> analyzedData])
    /\ UNCHANGED <<dashboardPage, selectedIds, filterType,
                   cachedTransactions, serverTransactions>>
    /\ UNCHANGED <<products, transactions, inventory, filters, customGroups,
                   forecastData, view>>

\* the timer callback (App.tsx:563-600)
ForecastTimer ==
    /\ timers # <<>>
    /\ LET c == Head(timers)
       IN  forecastData' = ForecastRows(c.analyzedData, c.transactions, c.filters, Today)
    /\ isForecasting' = FALSE
    /\ view' = "calendar"
    /\ timers' = Tail(timers)
    /\ UNCHANGED <<dashboardPage, selectedIds, filterType,
                   cachedTransactions, serverTransactions>>
    /\ UNCHANGED <<products, transactions, inventory, filters, customGroups>>

\* the Dashboard button of the sidebar (App.tsx:679)
ShowDashboard ==
    /\ view # "dashboard"
    /\ view' = "dashboard"
    /\ UNCHANGED <<dashboardPage, selectedIds, filterType,
                   cachedTransactions, serverTransactions>>
    /\ UNCHANGED <<products, transactions, inventory, filters, customGroups,
                   forecastData, isForecasting, timers>>

\* the checkbox of a listed outlier (OutlierReview.tsx:57-62, 134)
ToggleSelect ==
    /\ \E k \in 1..Len(Outliers(transactions, products, filterType)) :
          LET id == Outliers(transactions, products, filterType)[k].id
          IN  selectedIds' = IF id \in selectedIds THEN selectedIds \ {id}
                             ELSE selectedIds \cup {id}
    /\ UNCHANGED <<products, transactions, inventory, filters, customGroups,
                   forecastData, isForecasting, view, timers, dashboardPage,
                   filterType, cachedTransactions, serverTransactions>>

\* the checkbox of the table header (OutlierReview.tsx:64-67, 111)
SelectAll ==
    /\ LET outliers == Outliers(transactions, products, filterType)
       IN  selectedIds' = IF Cardinality(selectedIds) = Len(outliers) THEN {}
                          ELSE {outliers[k].id : k \in 1..Len(outliers)}
    /\ UNCHANGED <<products, transactions, inventory, filters, customGroups,
                   forecastData, isForecasting, view, timers, dashboardPage,
                   filterType, cachedTransactions, serverTransactions>>

\* a button of Filter Issues (OutlierReview.tsx:87-90)
SetFilterType ==
    /\ \E f \in FilterTypes : f # filterType /\ filterType' = f
    /\ UNCHANGED <<products, transactions, inventory, filters, customGroups,
                   forecastData, isForecasting, view, timers, dashboardPage,
                   selectedIds, cachedTransactions, serverTransactions>>

\* handleAction(action) (OutlierReview.tsx:41-55): onUpdateTransaction for
\* every selected id (App.tsx:73-79), the selection emptied, and the remote
\* update of the same ids
HandleAction ==
    /\ selectedIds # {}
    /\ \E action \in {"verified", "ignored"} :
          /\ transactions' =
                [j \in 1..Len(transactions) |->
                    IF transactions[j].id \in selectedIds
                    THEN [transactions[j] EXCEPT !.review_status = action]
                    ELSE transactions[j]]
          /\ serverTransactions' =
                [j \in 1..Len(serverTransactions) |->
                    IF serverTransactions[j].id \in selectedIds
                    THEN [serverTransactions[j] EXCEPT !.review_status = action]
                    ELSE serverTransactions[j]]
    /\ selectedIds' = {}
    /\ UNCHANGED <<products, inventory, filters, customGroups, forecastData,
                   isForecasting, view, timers, dashboardPage, filterType,
                   cachedTransactions>>

\* the rows of a dashboard page (App.tsx:105)
dashboardItemsPerPage == 50

\* Math.ceil(analyzedData.length / dashboardItemsPerPage) (App.tsx:637)
dashboardTotalPages == CeilDiv(Len(analyzedData), dashboardItemsPerPage)

\* the Previous button, enabled unless the page is 1 (App.tsx:920)
PreviousPage ==
    /\ dashboardPage # 1
    /\ dashboardPage' = Max(1, dashboardPage - 1)
    /\ UNCHANGED <<products, transactions, inventory, filters, customGroups,
                   forecastData, isForecasting, view, timers, selectedIds,
                   filterType, cachedTransactions, serverTransactions>>

\* the Next button, enabled unless the page is the number of pages
\* (App.tsx:922)
NextPage ==
    /\ dashboardPage # dashboardTotalPages
    /\ dashboardPage' = Min(dashboardTotalPages, dashboardPage + 1)
    /\ UNCHANGED <<products, transactions, inventory, filters, customGroups,
                   forecastData, isForecasting, view, timers, selectedIds,
                   filterType, cachedTransactions, serverTransactions>>

\* the quantities typed into the edit dialog
EditQuantities == {2}

\* handleSaveEdit(updatedTx, updatedProd) with the product left as it is
\* (App.tsx:181-206): the transaction is replaced in memory and five of its
\* columns are written to the table
HandleSaveEdit ==
    /\ \E k \in 1..Len(transactions), q \in EditQuantities :
          LET updatedTx == [transactions[k] EXCEPT !.qtySold = q]
          IN  /\ transactions[k].qtySold # q
              /\ transactions' =
                    [j \in 1..Len(transactions) |->
                        IF transactions[j].id = updatedTx.id THEN updatedTx
                        ELSE transactions[j]]
              /\ serverTransactions' =
                    [j \in 1..Len(serverTransactions) |->
                        IF serverTransactions[j].id = updatedTx.id
                        THEN [serverTransactions[j] EXCEPT
                                 !.date = updatedTx.date,
                                 !.qtySold = updatedTx.qtySold,
                                 !.discount = updatedTx.discount,
                                 !.property = updatedTx.property,
                                 !.unit_price_sold = updatedTx.unit_price_sold]
                        ELSE serverTransactions[j]]
    /\ UNCHANGED <<products, inventory, filters, customGroups, forecastData,
                   isForecasting, view, timers, dashboardPage, selectedIds,
                   filterType, cachedTransactions>>

\* handleDeleteTransaction(id), confirmed (App.tsx:81-91)
HandleDeleteTransaction ==
    /\ \E k \in 1..Len(transactions) :
          LET id == transactions[k].id
          IN  /\ transactions' = SelectSeq(transactions, LAMBDA t : t.id # id)
              /\ serverTransactions' =
                    SelectSeq(serverTransactions, LAMBDA t : t.id # id)
    /\ UNCHANGED <<products, inventory, filters, customGroups, forecastData,
                   isForecasting, view, timers, dashboardPage, selectedIds,
                   filterType, cachedTransactions>>

\* loadServerData with the table reachable (App.tsx:226-318), run by the
\* sync button (App.tsx:705) and by the mount effect of a page reload
\* (App.tsx:119).  Less than CACHE_DURATION after the cache was written
\* getCachedData returns the cached list and the function returns with it
\* (lines 234-245); later the table is read, set and cached (lines 298-313).
\* The products and the inventory are not edited here, so their cached and
\* fetched copies are the ones in memory.
LoadServerData ==
    /\ \E fresh \in BOOLEAN :
          IF fresh
          THEN /\ transactions' = cachedTransactions
               /\ UNCHANGED cachedTransactions
          ELSE /\ transactions' = serverTransactions
               /\ cachedTransactions' = serverTransactions
    /\ UNCHANGED <<products, inventory, filters, customGroups, forecastData,
                   isForecasting, view, timers, dashboardPage, selectedIds,
                   filterType, serverTransactions>>

\* The forecast: a sales history is loaded, the store filter is toggled and
\* forecasts are run
Init == InitWith(TxLists(HistoryChoices), {<<"sku", <<>>>>})

Next ==
    \/ ToggleFilterProperty({North})
    \/ HandleRunForecast
    \/ ForecastTimer
    \/ ShowDashboard

Spec == Init /\ [][Next]_vars

\* The aggregation: analyze is applied to the transaction lists, groupings,
\* date ranges and store selections
InitAnalyze == InitWith(TxLists(TxChoices), Groupings)

NextAnalyze ==
    \/ SetDateStart
    \/ SetDateEnd
    \/ ToggleFilterProperty(Properties)
    \/ ToggleHideZeroSales

SpecAnalyze == InitAnalyze /\ [][NextAnalyze]_vars

\* The review workflow: transactions are marked ignored or verified and the
\* aggregation is run again
InitReview == InitWith(TxLists(TxChoices), {<<"sku", <<>>>>, <<"category", <<>>>>})

NextReview ==
    \/ HandleUpdateTransaction({"ignored", "verified"})

SpecReview == InitReview /\ [][NextReview]_vars

\* The search: texts are typed into the Search box over the three groupings
InitSearch == InitWith(TxLists(HistoryChoices), Groupings)

NextSearch ==
    \/ SetSearch

SpecSearch == InitSearch /\ [][NextSearch]_vars

\* The outlier review panel, opened on a data set with outliers of every
\* kind
InitOutlier == InitWith(TxLists(ReviewChoices), {<<"sku", <<>>>>})

NextOutlier ==
    \/ ToggleSelect
    \/ SelectAll
    \/ SetFilterType
    \/ HandleAction

SpecOutlier == InitOutlier /\ [][NextOutlier]_vars

\* The reload: transactions are edited and deleted and the data is loaded
\* again
InitReload == InitWith(TxLists(SubSeq(TxChoices, 1, 2)), {<<"sku", <<>>>>})

NextReload ==
    \/ HandleUpdateTransaction({"ignored", "verified"})
    \/ HandleSaveEdit
    \/ HandleDeleteTransaction
    \/ LoadServerData

SpecReload == InitReload /\ [][NextReload]_vars

\* The paging: the dashboard is paged while the search text and the
\* hide-zero-sales switch change the rows
InitPaging == InitWith(TxLists(HistoryChoices), {<<"sku", <<>>>>})

NextPaging ==
    \/ PreviousPage
    \/ NextPage
    \/ SetSearch
    \/ ToggleHideZeroSales

SpecPaging == InitPaging /\ [][NextPaging]_vars

-----------------------------------------------------------------------------
(* Properties *)

ProductSkus == {products[i].sku : i \in 1..Len(products)}

\* the transactions of a row after the pre-filter: those of the row's SKUs
\* that are products
RowPreFiltered(r) ==
    SelectSeq(FilteredTx(transactions, filters),
              LAMBDA t : t.sku \in Elems(r.skus) /\ t.sku \in ProductSkus)

ProductOf(t) == FindProduct(products, t.sku)[1]

\* point-in-time override when present (non-zero), else the product's value
EffectiveUnitPrice(t) ==
    IF t.unit_price_sold # 0 THEN t.unit_price_sold ELSE ProductOf(t).price
EffectiveUnitCost(t) ==
    IF t.unit_cost_sold # 0 THEN t.unit_cost_sold ELSE ProductOf(t).cost

\* transactions without the one at position k
WithoutTx(k) == SubSeq(transactions, 1, k - 1)
                \o SubSeq(transactions, k + 1, Len(transactions))

\* the rows a forecast run on the given transactions stores
ForecastOf(txs) ==
    ForecastRows(Analyze(products, txs, inventory, customGroups, filters),
                 txs, filters, Today)

\* C1: a transaction whose review_status is 'ignored' contributes to no
\* aggregate and no forecast: analyze and forecast return what they return
\* with that transaction removed from the input.
C1_IgnoredExcluded ==
    \A k \in 1..Len(transactions) :
        transactions[k].review_status = "ignored" =>
            /\ analyzedData
                 = Analyze(products, WithoutTx(k), inventory, customGroups, filters)
            /\ ForecastOf(transactions) = ForecastOf(WithoutTx(k))

\* C2: in every forecast row and month, closingStock = max(0, openingStock +
\* restockQty - forecastedDemand), and the closing stock of a month is the
\* opening stock of the next.
C2_StockConservation ==
    \A r \in 1..Len(forecastData) :
        LET s == forecastData[r].calendarSchedule
        IN  /\ Len(s) = 12
            /\ \A i \in 1..12 :
                  s[i].closingStock
                    = Max(0, s[i].openingStock + s[i].restockQty - s[i].forecastedDemand)
            /\ \A i \in 1..11 : s[i + 1].openingStock = s[i].closingStock

\* a forecast row that starts above its demand, sells down and later restocks
C2_Witness ==
    \E r \in 1..Len(forecastData) :
        LET s == forecastData[r].calendarSchedule
        IN  /\ s[1].forecastedDemand > 0
            /\ s[1].openingStock > s[1].forecastedDemand
            /\ s[1].restockQty = 0
            /\ \E i \in 2..12 : s[i].restockQty > 0

\* C3: for every row, profit = revenue - sum of qtySold * effective unit cost
\* over the row's pre-filtered transactions, the effective cost being the
\* transaction's unit_cost_sold when present and the product's cost otherwise.
C3_ProfitIdentity ==
    LET rows == analyzedData
    IN  \A i \in 1..Len(rows) :
            rows[i].profit
              = rows[i].revenue
                - SumSeq(RowPreFiltered(rows[i]),
                         LAMBDA t : t.qtySold * EffectiveUnitCost(t))

\* C4: for every row, grossRevenue = sum of qtySold * effective unit price
\* over the row's pre-filtered transactions, the effective price being the
\* transaction's unit_price_sold when present and the product's price
\* otherwise.
C4_GrossRevenue ==
    LET rows == analyzedData
    IN  \A i \in 1..Len(rows) :
            rows[i].grossRevenue
              = SumSeq(RowPreFiltered(rows[i]),
                       LAMBDA t : t.qtySold * EffectiveUnitPrice(t))

Counted(t) ==
    /\ DayNumber(filters.dateStart) <= DayNumber(t.date)
    /\ DayNumber(t.date) <= DayNumber(filters.dateEnd)
    /\ \/ filters.selectedProperty = <<>>
       \/ t.property \in Elems(filters.selectedProperty)
    /\ t.review_status # "ignored"

\* C7: in sku mode a row's qtySold is the sum of qtySold over exactly the
\* transactions of its SKU that lie in the date range (both ends included,
\* time of day ignored), match the store selection and are not ignored.
C7_CountedTransactions ==
    filters.groupBy = "sku" =>
        LET rows == analyzedData
        IN  \A i \in 1..Len(rows) :
                rows[i].qtySold
                  = SumSeq(SelectSeq(transactions,
                               LAMBDA t : t.sku = rows[i].id /\ Counted(t)),
                           LAMBDA t : t.qtySold)

\* C8: widening the date range never decreases a row's qtySold or
\* grossRevenue: for every range that contains the current one, the rows
\* present in both outputs have at least the current quantities.
WiderFilters ==
    { [filters EXCEPT !.dateStart = ds, !.dateEnd = de] :
        ds \in {d \in DateStartChoices : DayNumber(d) <= DayNumber(filters.dateStart)},
        de \in {d \in DateEndChoices : DayNumber(filters.dateEnd) <= DayNumber(d)} }

HistoryTx ==
    SelectSeq(transactions,
              LAMBDA t : \/ filters.selectedProperty = <<>>
                         \/ t.property \in Elems(filters.selectedProperty))

\* C9: the lookback of a target month sums qtySold over every transaction of
\* the row's SKUs in the lookback month and year, from the full history
\* whatever the date range, restricted by store only when one is selected.
C9_LookbackHistory ==
    LET rows == analyzedData
        pTx == PTx(transactions, filters)
        history == HistoryTx
    IN  \A r \in 1..Len(rows), i \in 1..12, y \in 1..3 :
            LET InMonth(txs) == YearTx(txs, rows[r], TargetMonth(Today, i),
                                       TargetYear(Today, i) - y)
            IN  SumSeq(InMonth(pTx), LAMBDA t : t.qtySold)
                  = SumSeq(InMonth(history), LAMBDA t : t.qtySold)

\* C10: a lookback year is found exactly when some transaction of the row's
\* SKUs is in that month and year, whatever the quantities; historicalAverage
\* is the found years' quantity over the number of found years, 0 with none.
C10_HistoricalAverage ==
    LET rows == ForecastOf(transactions)
    IN  \A r \in 1..Len(rows), i \in 1..12 :
            LET InYear(y) == SelectSeq(HistoryTx, LAMBDA t :
                                /\ t.sku \in Elems(rows[r].skus)
                                /\ t.date.m - 1 = TargetMonth(Today, i)
                                /\ t.date.y = TargetYear(Today, i) - y)
                found == {y \in 1..3 : Len(InYear(y)) > 0}
                total == SumSeq(<<1, 2, 3>>, LAMBDA y :
                            SumSeq(InYear(y), LAMBDA t : t.qtySold))
                avg == rows[r].calendarSchedule[i].historicalAverage
            IN  IF found = {} THEN avg.num = 0
                ELSE avg.num * Cardinality(found) = total * avg.den

\* the lookback years of month i in which the history holds a transaction of
\* the row's SKUs
HistoryYears(row, i) ==
    {y \in 1..3 :
        \E k \in 1..Len(HistoryTx) :
            /\ HistoryTx[k].sku \in Elems(row.skus)
            /\ HistoryTx[k].date.m - 1 = TargetMonth(Today, i)
            /\ HistoryTx[k].date.y = TargetYear(Today, i) - y}

\* the quantity sold in the found lookback years of month i
HistoryTotal(row, i) ==
    SumSeq(SelectSeq(HistoryTx, LAMBDA t :
                /\ t.sku \in Elems(row.skus)
                /\ t.date.m - 1 = TargetMonth(Today, i)
                /\ TargetYear(Today, i) - t.date.y \in 1..3),
           LAMBDA t : t.qtySold)

\* C11: in every forecast month, forecastedDemand = ceil(historicalAverage *
\* 1.05) when the average of the found lookback years is positive, and
\* ceil(row.qtySold / 3) otherwise.
C11_ForecastedDemand ==
    LET rows == ForecastOf(transactions)
    IN  \A r \in 1..Len(rows), i \in 1..12 :
            LET years == Cardinality(HistoryYears(rows[r], i))
                total == HistoryTotal(rows[r], i)
                fd == rows[r].calendarSchedule[i].forecastedDemand
            IN  IF years > 0 /\ total > 0
                THEN fd = CeilDiv(total * 105, years * 100)
                ELSE fd = CeilDiv(rows[r].qtySold, 3)

\* C12: in every forecast cell targetStock = forecastedDemand, restockQty =
\* max(0, forecastedDemand + targetStock - openingStock) and restockCost =
\* restockQty * productCost; the first month opens at the row's qtyOnHand.
C12_RestockFormula ==
    \A r \in 1..Len(forecastData) :
        LET row == forecastData[r]
            s == row.calendarSchedule
        IN  /\ s[1].openingStock = row.qtyOnHand
            /\ \A i \in 1..12 :
                  /\ s[i].targetStock = s[i].forecastedDemand
                  /\ s[i].restockQty
                       = Max(0, (s[i].forecastedDemand + s[i].targetStock)
                                - s[i].openingStock)
                  /\ s[i].restockCost.num * row.productCost.den
                       = s[i].restockQty * row.productCost.num * s[i].restockCost.den

\* a stocked row whose first month needs a restock that costs something
C12_Witness ==
    \E r \in 1..Len(forecastData) :
        LET s == forecastData[r].calendarSchedule
        IN  /\ s[1].openingStock > 0
            /\ s[1].forecastedDemand > 0
            /\ s[1].restockQty > 0
            /\ s[1].restockQty < 2 * s[1].forecastedDemand
            /\ s[1].restockCost.num > 0

\* C13: after a forecast a row's hasHistory is true exactly when one of its
\* 12 months found a lookback year with matching transactions or the row's
\* qtySold in the filtered window is positive.
C13_HasHistory ==
    LET rows == ForecastOf(transactions)
    IN  \A r \in 1..Len(rows) :
            rows[r].hasHistory
              <=> \/ \E i \in 1..12 : HistoryYears(rows[r], i) # {}
                  \/ rows[r].qtySold > 0

\* the inventory records of a row's constituent products
RowInventory(r) ==
    SelectSeq(inventory,
              LAMBDA i : i.sku \in Elems(r.skus) /\ i.sku \in ProductSkus)

\* no (sku, property) pair of the row is counted more than once
CountedOnce(r) ==
    LET recs == RowInventory(r)
    IN  \A a, b \in 1..Len(recs) :
            (a # b /\ recs[a].sku = recs[b].sku)
                => recs[a].property # recs[b].property

\* C14: a row's qtyOnHand is the sum of the on-hand quantities of its SKUs'
\* inventory records: all of them, the records without a property included,
\* when no store is selected, and those of the selected stores otherwise.
C14_QtyOnHand ==
    LET rows == analyzedData
    IN  \A k \in 1..Len(rows) :
            CountedOnce(rows[k]) =>
                rows[k].qtyOnHand
                  = SumSeq(SelectSeq(RowInventory(rows[k]),
                               LAMBDA i : \/ filters.selectedProperty = <<>>
                                          \/ i.property \in Elems(filters.selectedProperty)),
                           LAMBDA i : i.qtyOnHand)

\* the counts recorded for a (sku, property) pair
PairCounts(sku, prop) ==
    SelectSeq(inventory, LAMBDA i : i.sku = sku /\ i.property = prop)

\* C15: of several counts of one (sku, property) pair the engine uses the
\* one with the latest lastCounted, wherever it stands in the input: with
\* that store alone selected, the SKU's row shows that count.
C15_LatestCount ==
    (filters.groupBy = "sku" /\ Len(filters.selectedProperty) = 1) =>
        LET rows == analyzedData
            prop == filters.selectedProperty[1]
        IN  \A k \in 1..Len(rows) :
                LET counts == PairCounts(rows[k].id, prop)
                IN  counts # <<>> =>
                        \E c \in 1..Len(counts) :
                            /\ \A d \in 1..Len(counts) :
                                  counts[d].lastCounted <= counts[c].lastCounted
                            /\ rows[k].qtyOnHand = counts[c].qtyOnHand

\* C16: a negative count is treated as 0: no row has a negative
\* monthsOfSupply or a suggestedReorder above 2 * avgMonthlyDemand, and no
\* forecast cell opens below 0.
C16_NegativeFloor ==
    LET rows == analyzedData
        fc == ForecastRows(rows, transactions, filters, Today)
    IN  /\ \A k \in 1..Len(rows) :
              /\ rows[k].monthsOfSupply.num >= 0
              /\ rows[k].suggestedReorder.num * rows[k].avgMonthlyDemand.den
                   <= 2 * rows[k].avgMonthlyDemand.num * rows[k].suggestedReorder.den
        /\ \A k \in 1..Len(fc), i \in 1..12 :
              fc[k].calendarSchedule[i].openingStock >= 0

\* 30 * monthsDiff, monthsDiff = max(1, days of the range / 30)
RangeDays ==
    Max(30, DayNumber(filters.dateEnd) - DayNumber(filters.dateStart))

SelectedSearchFields ==
    IF filters.searchFields = <<>> THEN {"name", "sku"}
    ELSE Elems(filters.searchFields)

\* the lower-cased text is a substring of the row's field
FieldHolds(r, field, text) ==
    CASE field = "name" -> Includes(ToLowerCase(r.name), text)
      [] field = "sku" -> \E i \in 1..Len(r.skus) :
                              Includes(ToLowerCase(Chars(r.skus[i])), text)
      [] field = "vendor" -> Includes(ToLowerCase(r.vendor), text)
      [] field = "category" -> Includes(ToLowerCase(Chars(r.category)), text)
      [] field = "department" -> Includes(ToLowerCase(r.department), text)
      [] OTHER -> FALSE

\* C20: with a search text, a row is kept exactly when the text is a
\* case-insensitive substring of one of its fields named in searchFields
\* (name and SKU when searchFields is empty); a match in a field that is not
\* selected does not keep the row.
C20_SearchFields ==
    filters.search # <<>> =>
        LET built == BuildRows(products, transactions, inventory, customGroups, filters)
            kept == analyzedData
            text == ToLowerCase(filters.search)
        IN  \A k \in 1..Len(built) :
                (\E j \in 1..Len(kept) : kept[j].id = built[k].id)
                  <=> \E field \in SelectedSearchFields :
                          FieldHolds(built[k], field, text)

\* the custom groups with the SKUs that are no product taken out
KnownGroups ==
    [g \in 1..Len(customGroups) |->
        [customGroups[g] EXCEPT
            !.skus = SelectSeq(@, LAMBDA sku : sku \in ProductSkus)]]

C23_StaleDiscarded ==
    [][(/\ timers # <<>>
        /\ timers' = Tail(timers)
        /\ \/ Head(timers).filters # filters
           \/ Head(timers).transactions # transactions)
          => forecastData' = forecastData]_vars

\* C25: a change of the applied filters clears the forecast: forecastData
\* is empty or is the forecast of the rows of the current filters.
C25_ForecastCleared ==
    \/ forecastData = <<>>
    \/ forecastData = ForecastRows(analyzedData, transactions, filters, Today)

\* C26: every forecast cell with forecastedDemand >= 0 closes at or above
\* its target stock.
C26_ClosingAboveTarget ==
    \A r \in 1..Len(forecastData) :
        LET s == forecastData[r].calendarSchedule
        IN  \A i \in 1..Len(s) :
                s[i].forecastedDemand >= 0 => s[i].closingStock >= s[i].targetStock

\* a month that opens below its target and is restocked up to it, a month
\* that opens above twice its demand and closes above the target, and a
\* month that opens on a negative count
C26_Witness ==
    /\ \E r \in 1..Len(forecastData) :
          \E i \in 1..12 :
              LET c == forecastData[r].calendarSchedule[i]
              IN  /\ c.targetStock > 0
                  /\ c.openingStock < c.targetStock
                  /\ c.closingStock = c.targetStock
    /\ \E r \in 1..Len(forecastData) :
          \E i \in 1..12 :
              LET c == forecastData[r].calendarSchedule[i]
              IN  /\ c.targetStock > 0
                  /\ c.restockQty = 0
                  /\ c.closingStock > c.targetStock
    /\ \E r \in 1..Len(forecastData) :
          forecastData[r].calendarSchedule[1].openingStock < 0

\* C27: isForecasting is true exactly while a triggered forecast has not
\* run its timer callback yet.
C27_ForecastingFlag ==
    isForecasting <=> timers # <<>>

\* the ids of the outliers the panel lists
ListedIds ==
    LET outliers == Outliers(transactions, products, filterType)
    IN  {outliers[k].id : k \in 1..Len(outliers)}

\* C24: after Ignore or Mark Verified on a selection of listed transactions
\* every selected transaction has the chosen status, none of them is listed
\* under any issue filter, the selection is empty and outlierCount has gone
\* down by the number of transactions acted on.
C24_ReviewAction ==
    [][(/\ selectedIds # {}
        /\ selectedIds \subseteq ListedIds
        /\ transactions' # transactions)
          => /\ \E action \in {"verified", "ignored"} :
                   \A j \in 1..Len(transactions) :
                       transactions[j].id \in selectedIds
                         => transactions'[j].review_status = action
             /\ \A ft \in FilterTypes :
                   \A j \in 1..Len(transactions') :
                       transactions'[j].id \in selectedIds
                         => ~IsListed(products, ft, transactions'[j])
             /\ selectedIds' = {}
             /\ OutlierCount(transactions', products)
                  = OutlierCount(transactions, products) - Cardinality(selectedIds)]_vars

\* two outliers have been acted on under an issue filter, one ignored and
\* one verified, and the badge is at 0
C24_Witness ==
    /\ Len(transactions) = 2
    /\ \E j \in 1..2 : transactions[j].review_status = "ignored"
    /\ \E j \in 1..2 : transactions[j].review_status = "verified"
    /\ OutlierCountAny(transactions, products) = 2
    /\ OutlierCount(transactions, products) = 0
    /\ selectedIds = {}
    /\ filterType # "All"

\* C28: the selected ids are ids of listed outliers, so handleAction changes
\* only transactions the list shows.
C28_SelectionListed ==
    selectedIds \subseteq ListedIds

\* C29: a transaction edit survives a reload: a loadServerData call, the
\* step that leaves the table as it is, yields the transaction list of the
\* table, which has every edit made before the call, whether the list is
\* served from the cache or from the table.
C29_EditSurvivesReload ==
    [][serverTransactions' = serverTransactions
          => transactions' = serverTransactions]_vars

\* C30: the dashboard page is at least 1 and at most the larger of 1 and the
\* number of pages, whatever Previous and Next clicks and filter changes
\* were made.
C30_PageInRange ==
    /\ 1 <= dashboardPage
    /\ dashboardPage <= Max(1, dashboardTotalPages)

====
